---- MODULE Spec2Model ----
(***************************************************************************)
(* A model of the code-RAG pipeline: the chunker (chunk_text), the batcher *)
(* (batched), chunk assembly (discover_chunks), the ingest handler         *)
(* (handle_ingest / ensure_collection) and the three MCP tools             *)
(* (list_collections, query_codebase, list_rows).                          *)
(*                                                                         *)
(* Text is a sequence of one-character strings; a line is such a sequence  *)
(* without a line break.                                                   *)
(***************************************************************************)
EXTENDS Integers, Sequences, FiniteSets, TLC

\* ------------------------------------------------------------------------
\* Bounds of the model
\* ------------------------------------------------------------------------
MaxTextLen == 5
MaxChunkLines == 3
MaxOverlap == 3
MaxItems == 4
MaxBatchSize == 3
MaxRuns == 3
MaxHits == 2

\* chunk_text: its arguments, its locals, the chunks yielded so far, the
\* windows considered so far and its position
VARIABLES text, chunk_lines, chunk_overlap, lines, step, start, yielded, windows, cpc

\* batched: its arguments, its local batch, the lists yielded so far, the
\* number of items consumed and its position
VARIABLES iterable, size, batch, batches, pos, bpc

\* discover_chunks: the entries rglob yields, in its order, the arguments, the
\* number of entries consumed, the chunks yielded so far and its position
VARIABLES entries, dargs, dnext, chunks, dpc

\* _query_collection_sync on its own: what collection.query returned, what
\* the function returned or raised, and its position
VARIABLES qres, qout, qpc

\* The file system and the vector store: the directories that exist, the
\* collections under each database directory, and the source tree
VARIABLES dirs, store, tree

\* handle_ingest: its position, its arguments, the batches not yet upserted,
\* its counters and what it printed or raised; the ids it has upserted, the
\* rows the collection had when ensure_collection returned, a summary of the
\* run before it and the number of runs so far
VARIABLES ipc, iargs, pending, total, has_data, iout, upserted, base, prev, runs

\* A tool call of each caller: its position, its arguments, the row count
\* list_rows read, its result, and the number of file-system and store calls
\* it has made
VARIABLES tpc, targs, ttotal, tresult, tio

chunkVars == <<text, chunk_lines, chunk_overlap, lines, step, start, yielded, windows, cpc>>
batchVars == <<iterable, size, batch, batches, pos, bpc>>

discVars == <<entries, dargs, dnext, chunks, dpc>>
queryVars == <<qres, qout, qpc>>

diskVars == <<dirs, store, tree>>
ingestVars == <<ipc, iargs, pending, total, has_data, iout, upserted, base, prev, runs>>
toolVars == <<tpc, targs, ttotal, tresult, tio>>

vars == <<chunkVars, batchVars, discVars, queryVars, diskVars, ingestVars, toolVars>>

\* What a step of one component leaves alone.
exceptChunk == <<batchVars, discVars, queryVars, diskVars, ingestVars, toolVars>>
exceptBatch == <<chunkVars, discVars, queryVars, diskVars, ingestVars, toolVars>>
exceptDisc == <<chunkVars, batchVars, queryVars, diskVars, ingestVars, toolVars>>
exceptQuery == <<chunkVars, batchVars, discVars, diskVars, ingestVars, toolVars>>
pureVars == <<chunkVars, batchVars, discVars, queryVars>>

\* ------------------------------------------------------------------------
\* Characters and strings
\* ------------------------------------------------------------------------
NL == "\n"
Whitespace == {" ", NL}
Chars == {"x", " ", NL}

Min(a, b) == IF a < b THEN a ELSE b
Max(a, b) == IF a > b THEN a ELSE b

RECURSIVE SeqsUpTo(_, _)
SeqsUpTo(S, n) ==
    IF n = 0 THEN {<<>>}
    ELSE LET shorter == SeqsUpTo(S, n - 1)
         IN  shorter \cup {Append(s, e) : s \in {t \in shorter : Len(t) = n - 1}, e \in S}

\* t[i..j].split("\n"): the segments between line breaks, by halving the range.
RECURSIVE SplitRange(_, _, _)
SplitRange(t, i, j) ==
    IF i > j THEN << <<>> >>
    ELSE IF i = j THEN (IF t[i] = NL THEN << <<>>, <<>> >> ELSE << <<t[i]>> >>)
    ELSE LET m == (i + j) \div 2
             a == SplitRange(t, i, m)
             b == SplitRange(t, m + 1, j)
         IN  SubSeq(a, 1, Len(a) - 1) \o <<a[Len(a)] \o b[1]>> \o Tail(b)

\* str.splitlines(): a line break ends the current line; a trailing line
\* break does not open a further, empty line.
SplitLines(t) ==
    LET segs == SplitRange(t, 1, Len(t))
    IN  IF segs[Len(segs)] = <<>> THEN SubSeq(segs, 1, Len(segs) - 1) ELSE segs

\* "\n".join(ls[i..j]), by halving the range.
RECURSIVE JoinRange(_, _, _)
JoinRange(ls, i, j) ==
    IF i > j THEN <<>>
    ELSE IF i = j THEN ls[i]
    ELSE LET m == (i + j) \div 2
         IN  JoinRange(ls, i, m) \o <<NL>> \o JoinRange(ls, m + 1, j)

\* "\n".join(ls)
JoinLines(ls) == JoinRange(ls, 1, Len(ls))

\* str.strip(): drops leading and trailing whitespace.
RECURSIVE LStrip(_)
LStrip(s) == IF s # <<>> /\ s[1] \in Whitespace THEN LStrip(Tail(s)) ELSE s

RECURSIVE RStrip(_)
RStrip(s) ==
    IF s # <<>> /\ s[Len(s)] \in Whitespace THEN RStrip(SubSeq(s, 1, Len(s) - 1)) ELSE s

Strip(s) == RStrip(LStrip(s))

\* ls[s:e] for 0 <= s: a slice end beyond the list is clamped to its length.
Slice(ls, s, e) == SubSeq(ls, s + 1, Min(e, Len(ls)))

\* ------------------------------------------------------------------------
\* chunk_text
\* ------------------------------------------------------------------------
StepClampedAtZero(c, o) == Max(0, c - o)

\* step = max(1, chunk_lines - chunk_overlap)
ChunkStep(c, o) == Max(1, c - o)

WindowEndUnclamped(ls, s, c) == s + c

\* end = min(len(lines), start + chunk_lines)
WindowEnd(ls, s, c) == Min(Len(ls), s + c)

\* chunk = "\n".join(lines[start:end]).strip()
WindowChunk(ls, s, e) == Strip(JoinLines(Slice(ls, s, e)))

WindowYieldUnfiltered(ls, s, c) ==
    LET e == WindowEnd(ls, s, c)
    IN  << <<WindowChunk(ls, s, e), s + 1, e>> >>

\* if chunk: yield chunk, start + 1, end
WindowYield(ls, s, c) ==
    LET e == WindowEnd(ls, s, c)
        chunk == WindowChunk(ls, s, e)
    IN  IF chunk # <<>> THEN << <<chunk, s + 1, e>> >> ELSE <<>>

\* The loop of chunk_text from a given start, as a function.
RECURSIVE ChunkFrom(_, _, _, _)
ChunkFrom(ls, c, stp, s) ==
    IF s < Len(ls) THEN WindowYield(ls, s, c) \o ChunkFrom(ls, c, stp, s + stp) ELSE <<>>

\* chunk_text(text, chunk_lines, chunk_overlap) as the list it generates.
ChunkText(t, c, o) ==
    LET ls == SplitLines(t)
    IN  IF ls = <<>> THEN <<>> ELSE ChunkFrom(ls, c, ChunkStep(c, o), 0)

Texts == SeqsUpTo(Chars, MaxTextLen)
ChunkLinesArgs == 1..MaxChunkLines
ChunkOverlapArgs == (0 - 1)..MaxOverlap

ChunkIdle ==
    /\ text = <<>>
    /\ chunk_lines = 1
    /\ chunk_overlap = 0
    /\ lines = <<>>
    /\ step = 0
    /\ start = 0
    /\ yielded = <<>>
    /\ windows = <<>>
    /\ cpc = "idle"

ChunkInit ==
    /\ text \in Texts
    /\ chunk_lines \in ChunkLinesArgs
    /\ chunk_overlap \in ChunkOverlapArgs
    /\ lines = <<>>
    /\ step = 0
    /\ start = 0
    /\ yielded = <<>>
    /\ windows = <<>>
    /\ cpc = "entry"

\* lines = text.splitlines(); if not lines: return; step = ...; start = 0
ChunkTextEnter ==
    /\ cpc = "entry"
    /\ lines' = SplitLines(text)
    /\ IF lines' = <<>>
       THEN cpc' = "done" /\ UNCHANGED <<step, start>>
       ELSE /\ cpc' = "loop"
            /\ step' = ChunkStep(chunk_lines, chunk_overlap)
            /\ start' = 0
    /\ UNCHANGED <<text, chunk_lines, chunk_overlap, yielded, windows, exceptChunk>>

\* One iteration of the while loop.
ChunkTextIter ==
    /\ cpc = "loop"
    /\ start < Len(lines)
    /\ yielded' = yielded \o WindowYield(lines, start, chunk_lines)
    /\ windows' = Append(windows, <<start, WindowEnd(lines, start, chunk_lines)>>)
    /\ start' = start + step
    /\ UNCHANGED <<text, chunk_lines, chunk_overlap, lines, step, cpc, exceptChunk>>

\* The loop condition fails: the generator is exhausted.
ChunkTextExit ==
    /\ cpc = "loop"
    /\ ~(start < Len(lines))
    /\ cpc' = "done"
    /\ UNCHANGED <<text, chunk_lines, chunk_overlap, lines, step, start, yielded, windows, exceptChunk>>

ChunkNext == ChunkTextEnter \/ ChunkTextIter \/ ChunkTextExit

\* ------------------------------------------------------------------------
\* batched
\* ------------------------------------------------------------------------
BatchFullStrict(b, n) == Len(b) > n

\* if len(batch) >= size
BatchFull(b, n) == Len(b) >= n

\* batched(iterable, size) as the list of lists it generates, from the item
\* after position p with the local batch b.
RECURSIVE BatchedFrom(_, _, _, _)
BatchedFrom(items, n, p, b) ==
    IF p < Len(items)
    THEN LET b2 == Append(b, items[p + 1])
         IN  IF BatchFull(b2, n)
             THEN <<b2>> \o BatchedFrom(items, n, p + 1, <<>>)
             ELSE BatchedFrom(items, n, p + 1, b2)
    ELSE IF b # <<>> THEN <<b>> ELSE <<>>

Batched(items, n) == BatchedFrom(items, n, 0, <<>>)

Items == {"a", "b"}
Iterables == SeqsUpTo(Items, MaxItems)
BatchSizes == 1..MaxBatchSize

BatchIdle ==
    /\ iterable = <<>>
    /\ size = 1
    /\ batch = <<>>
    /\ batches = <<>>
    /\ pos = 0
    /\ bpc = "idle"

BatchInit ==
    /\ iterable \in Iterables
    /\ size \in BatchSizes
    /\ batch = <<>>
    /\ batches = <<>>
    /\ pos = 0
    /\ bpc = "loop"

\* for item in iterable: batch.append(item); if len(batch) >= size: yield batch; batch = []
BatchedItem ==
    /\ bpc = "loop"
    /\ pos < Len(iterable)
    /\ LET b2 == Append(batch, iterable[pos + 1])
       IN  IF BatchFull(b2, size)
           THEN batches' = Append(batches, b2) /\ batch' = <<>>
           ELSE batch' = b2 /\ UNCHANGED batches
    /\ pos' = pos + 1
    /\ UNCHANGED <<iterable, size, bpc, exceptBatch>>

\* if batch: yield batch
BatchedFlush ==
    /\ bpc = "loop"
    /\ pos = Len(iterable)
    /\ batches' = (IF batch # <<>> THEN Append(batches, batch) ELSE batches)
    /\ bpc' = "done"
    /\ UNCHANGED <<iterable, size, batch, pos, exceptBatch>>

BatchNext == BatchedItem \/ BatchedFlush

\* ------------------------------------------------------------------------
\* Files and iter_code_files
\* ------------------------------------------------------------------------
DEFAULT_EXTENSIONS ==
    <<".py", ".ts", ".tsx", ".js", ".jsx", ".java", ".cs", ".cpp", ".c", ".rs", ".go",
      ".rb", ".php", ".kt", ".swift", ".scala", ".m", ".mm", ".sql", ".json", ".yaml",
      ".yml", ".toml", ".md">>

DefaultMaxFileMb == 2
DefaultChunkLines == 40
DefaultChunkOverlap == 10

Range(f) == {f[i] : i \in DOMAIN f}

Digits == <<"0", "1", "2", "3", "4", "5", "6", "7", "8", "9">>

\* str(n) for an integer n
RECURSIVE IntToStr(_)
IntToStr(n) ==
    IF n < 0 THEN "-" \o IntToStr(0 - n)
    ELSE IF n < 10 THEN Digits[n + 1]
    ELSE IntToStr(n \div 10) \o Digits[(n % 10) + 1]

\* One hundred lines "x", the last without a line break.
HundredLines == [i \in 1..199 |-> IF i % 2 = 1 THEN "x" ELSE NL]

\* An entry of the source tree: the parts of its path relative to the root,
\* whether it is a regular file, its size in bytes, whether stat and read
\* succeed on it, and its text.
Entry(parts, isFile, bytes, statOk, readOk, t) ==
    [parts |-> parts, is_file |-> isFile, st_size |-> bytes, stat_ok |-> statOk,
     read_ok |-> readOk, text |-> t]

EntryF == Entry(<<"f">>, TRUE, 199, TRUE, TRUE, HundredLines)
EntryA == Entry(<<"a.py">>, TRUE, 4, TRUE, TRUE, <<"x", NL, NL, "x">>)
EntryB == Entry(<<"pkg", "B.PY">>, TRUE, 4, TRUE, TRUE, <<"x", NL, " ", "x", NL>>)
EntryHidden == Entry(<<".git", "c.py">>, TRUE, 1, TRUE, TRUE, <<"x">>)
EntryDir == Entry(<<"pkg">>, FALSE, 0, TRUE, TRUE, <<>>)
EntryBig == Entry(<<"big.py">>, TRUE, 3 * 1024 * 1024, TRUE, TRUE, <<"x">>)
EntryUnreadable == Entry(<<"u.py">>, TRUE, 1, TRUE, FALSE, <<"x">>)
EntryNoStat == Entry(<<"s.py">>, TRUE, 1, FALSE, TRUE, <<"x">>)
EntryTxt == Entry(<<"notes.txt">>, TRUE, 1, TRUE, TRUE, <<"x">>)

\* part.startswith(".") on the names of the model
StartsWithDot(part) == part \in {".git"}

\* path.suffix on the last part of the path
Suffix(name) ==
    CASE name \in {"a.py", "c.py", "big.py", "u.py", "s.py"} -> ".py"
      [] name = "B.PY" -> ".PY"
      [] name = "notes.txt" -> ".txt"
      [] OTHER -> ""

\* str.lower() on the suffixes of the model
Lower(sfx) == IF sfx = ".PY" THEN ".py" ELSE sfx

\* path.relative_to(source_dir).as_posix()
RECURSIVE AsPosix(_)
AsPosix(parts) ==
    IF Len(parts) = 1 THEN parts[1] ELSE parts[1] \o "/" \o AsPosix(Tail(parts))

\* Whether iter_code_files yields the entry.
Selected(e, extensions, include_hidden, max_file_mb) ==
    /\ e.is_file
    /\ ~(~include_hidden /\ \E i \in DOMAIN e.parts : StartsWithDot(e.parts[i]))
    /\ ~(extensions # <<>> /\ Lower(Suffix(e.parts[Len(e.parts)])) \notin Range(extensions))
    /\ e.stat_ok
    /\ ~(e.st_size > max_file_mb * 1024 * 1024)

\* iter_code_files over the entries rglob yields, in rglob's order
IterCodeFiles(es, extensions, include_hidden, max_file_mb) ==
    LET Keep(e) == Selected(e, extensions, include_hidden, max_file_mb)
    IN  SelectSeq(es, Keep)

\* ------------------------------------------------------------------------
\* discover_chunks
\* ------------------------------------------------------------------------
DocIdOneBased(relative, idx) == relative \o "::" \o IntToStr(idx + 1)

\* doc_id = f"{relative}::{idx}"
DocId(relative, idx) == relative \o "::" \o IntToStr(idx)

\* The chunks discover_chunks yields for one file that was read.
FileChunks(e, c, o, source_dir, collection) ==
    LET cs == ChunkText(e.text, c, o)
        relative == AsPosix(e.parts)
    IN  [k \in 1..Len(cs) |->
            [doc_id |-> DocId(relative, k - 1),
             document |-> cs[k][1],
             metadata |-> [path |-> relative,
                           start_line |-> IntToStr(cs[k][2]),
                           end_line |-> IntToStr(cs[k][3]),
                           source_dir |-> source_dir,
                           collection |-> collection]]]

ReadAndChunkUnguarded(e, a) ==
    FileChunks(e, a.chunk_lines, a.chunk_overlap, a.source_dir, a.collection)

\* The body of the for loop for one selected file: a file that cannot be read
\* is skipped.
ReadAndChunk(e, a) ==
    IF ~e.read_ok THEN <<>>
    ELSE FileChunks(e, a.chunk_lines, a.chunk_overlap, a.source_dir, a.collection)

\* discover_chunks as the list it generates.
RECURSIVE ChunksOfFiles(_, _)
ChunksOfFiles(fs, a) ==
    IF fs = <<>> THEN <<>> ELSE ReadAndChunk(fs[1], a) \o ChunksOfFiles(Tail(fs), a)

DiscoverChunks(es, a) ==
    ChunksOfFiles(IterCodeFiles(es, a.extensions, a.include_hidden, a.max_file_mb), a)

AllEntries ==
    {EntryF, EntryA, EntryB, EntryHidden, EntryDir, EntryBig, EntryUnreadable,
     EntryNoStat, EntryTxt}

\* The trees of the model, as rglob may list them: up to two distinct entries.
EntryLists ==
    {<<>>} \cup {<<e>> : e \in AllEntries}
        \cup {p \in {<<e1, e2>> : e1 \in AllEntries, e2 \in AllEntries} : p[1] # p[2]}

DiscoverArgs ==
    [source_dir : {"/src"},
     extensions : {DEFAULT_EXTENSIONS, <<>>},
     include_hidden : BOOLEAN,
     max_file_mb : {DefaultMaxFileMb},
     chunk_lines : {1, 2, DefaultChunkLines},
     chunk_overlap : {0, 1, DefaultChunkOverlap},
     collection : {"code-rag"}]

DiscIdle ==
    /\ entries = <<>>
    /\ dargs = [source_dir |-> "/src", extensions |-> <<>>, include_hidden |-> FALSE,
                max_file_mb |-> DefaultMaxFileMb, chunk_lines |-> 1, chunk_overlap |-> 0,
                collection |-> "code-rag"]
    /\ dnext = 0
    /\ chunks = <<>>
    /\ dpc = "idle"

\* The hundred-line file is run with the default chunk_lines only.
DiscInit ==
    /\ entries \in EntryLists
    /\ dargs \in DiscoverArgs
    /\ EntryF \in Range(entries) => dargs.chunk_lines = DefaultChunkLines
    /\ dnext = 0
    /\ chunks = <<>>
    /\ dpc = "loop"

\* One entry of rglob: filtered out by iter_code_files, or read and chunked.
DiscoverEntry ==
    /\ dpc = "loop"
    /\ dnext < Len(entries)
    /\ LET e == entries[dnext + 1]
       IN  IF Selected(e, dargs.extensions, dargs.include_hidden, dargs.max_file_mb)
           THEN chunks' = chunks \o ReadAndChunk(e, dargs)
           ELSE UNCHANGED chunks
    /\ dnext' = dnext + 1
    /\ UNCHANGED <<entries, dargs, dpc, exceptDisc>>

\* rglob is exhausted.
DiscoverEnd ==
    /\ dpc = "loop"
    /\ dnext = Len(entries)
    /\ dpc' = "done"
    /\ UNCHANGED <<entries, dargs, dnext, chunks, exceptDisc>>

DiscNext == DiscoverEntry \/ DiscoverEnd

\* ------------------------------------------------------------------------
\* The store: collections of rows under a database directory
\* ------------------------------------------------------------------------
DEFAULT_DB_DIR == ".chromadb"
DEFAULT_COLLECTION == "code-rag"
DefaultBatchSize == 64
SnippetMax == 700

DbDirs == {DEFAULT_DB_DIR}
SourceDirs == {"/src"}

NoCollections == [n \in {} |-> 0]
NoMetadata == [k \in {} |-> ""]
IngestMetadata == [platform |-> "chromadb", kind |-> "code-rag"]

CreateCollectionAnew(cs, name, meta) ==
    [n \in DOMAIN cs \cup {name} |->
        IF n = name THEN [metadata |-> meta, rows |-> <<>>] ELSE cs[n]]

\* client.get_or_create_collection(name, metadata): an existing collection is
\* returned as it is.
GetOrCreateCollection(cs, name, meta) ==
    [n \in DOMAIN cs \cup {name} |->
        IF n \in DOMAIN cs THEN cs[n] ELSE [metadata |-> meta, rows |-> <<>>]]

\* client.delete_collection(name) on an existing collection
DeleteCollection(cs, name) == [n \in DOMAIN cs \ {name} |-> cs[n]]

RowOf(ch) == [id |-> ch.doc_id, document |-> ch.document, metadata |-> ch.metadata]

RowIds(rows) == {rows[i].id : i \in DOMAIN rows}

AddOne(rows, ch) == Append(rows, RowOf(ch))

\* collection.upsert of one chunk: a row of that id is overwritten in place, a
\* new id is appended.
UpsertOne(rows, ch) ==
    IF ch.doc_id \in RowIds(rows)
    THEN [i \in DOMAIN rows |-> IF rows[i].id = ch.doc_id THEN RowOf(ch) ELSE rows[i]]
    ELSE Append(rows, RowOf(ch))

\* collection.upsert(ids, documents, metadatas) of one batch
RECURSIVE UpsertBatch(_, _)
UpsertBatch(rows, b) ==
    IF b = <<>> THEN rows ELSE UpsertBatch(UpsertOne(rows, b[1]), Tail(b))

EnsureSteps == <<"mkdir", "client", "delete", "create">>

Before(steps, f, s) ==
    \/ f = "none"
    \/ \E i, j \in DOMAIN steps : steps[i] = s /\ steps[j] = f /\ i < j

EnsureCollectionKeepingRows(ds, st, db_dir, name, reset, f) ==
    LET cs == st[db_dir]
        cs2 == IF Before(EnsureSteps, f, "create")
               THEN GetOrCreateCollection(cs, name, IngestMetadata) ELSE cs
    IN  [dirs |-> IF Before(EnsureSteps, f, "mkdir") THEN ds \cup {db_dir} ELSE ds,
         store |-> [st EXCEPT ![db_dir] = cs2],
         ok |-> f = "none"]

\* ensure_collection(db_dir, collection_name, reset), failing at step f (or
\* at none): mkdir, PersistentClient, delete_collection when reset (a missing
\* collection raises InvalidCollectionException, which is passed over), then
\* get_or_create_collection. What was done before the failure stays done.
EnsureCollection(ds, st, db_dir, name, reset, f) ==
    LET cs == st[db_dir]
        cs1 == IF reset /\ Before(EnsureSteps, f, "delete") /\ name \in DOMAIN cs
               THEN DeleteCollection(cs, name) ELSE cs
        cs2 == IF Before(EnsureSteps, f, "create")
               THEN GetOrCreateCollection(cs1, name, IngestMetadata) ELSE cs1
    IN  [dirs |-> IF Before(EnsureSteps, f, "mkdir") THEN ds \cup {db_dir} ELSE ds,
         store |-> [st EXCEPT ![db_dir] = cs2],
         ok |-> f = "none"]

\* ------------------------------------------------------------------------
\* handle_ingest
\* ------------------------------------------------------------------------
\* The source trees of the model: an empty one, and one with a file of three
\* lines (the second blank) beside a file that cannot be read.
TreeAU == {EntryA, EntryUnreadable}
Trees == {{}, TreeAU}

\* The orders in which rglob may list a tree.
Orderings(S) == {o \in [1..Cardinality(S) -> S] : Range(o) = S}

\* The command lines of the model: chunk_lines/chunk_overlap 1/0 or 2/1.
IngestArgs ==
    {a \in [source_dir : SourceDirs \cup {"/nope"},
            db_dir : DbDirs,
            collection : {DEFAULT_COLLECTION},
            reset : BOOLEAN,
            extensions : {DEFAULT_EXTENSIONS},
            include_hidden : {FALSE},
            max_file_mb : {DefaultMaxFileMb},
            chunk_lines : {1, 2},
            chunk_overlap : {0, 1},
            batch_size : {1, DefaultBatchSize}] :
        a.chunk_overlap = a.chunk_lines - 1}

NoArgs ==
    [source_dir |-> "/nope", db_dir |-> DEFAULT_DB_DIR, collection |-> DEFAULT_COLLECTION,
     reset |-> FALSE, extensions |-> DEFAULT_EXTENSIONS, include_hidden |-> FALSE,
     max_file_mb |-> DefaultMaxFileMb, chunk_lines |-> 1, chunk_overlap |-> 0,
     batch_size |-> 1]

NoRun ==
    [ok |-> FALSE, failed_upsert |-> FALSE, args |-> NoArgs, tree |-> {}, ids |-> {},
     base |-> <<>>, rows |-> <<>>]

Rows(st, db_dir, name) == st[db_dir][name].rows

IngestIdle ==
    /\ ipc = "idle"
    /\ iargs = NoArgs
    /\ pending = <<>>
    /\ total = 0
    /\ has_data = FALSE
    /\ iout = ""
    /\ upserted = {}
    /\ base = <<>>
    /\ prev = NoRun
    /\ runs = 0

DiskInit ==
    /\ dirs = {}
    /\ store = [d \in DbDirs |-> NoCollections]
    /\ tree = {}

\* The source tree changes between runs.
EditTree ==
    /\ ipc = "idle"
    /\ tree' \in Trees \ {tree}
    /\ UNCHANGED <<dirs, store, ingestVars, toolVars, pureVars>>

\* handle_ingest up to the for loop: the source directory is checked,
\* ensure_collection runs, and the chunk generator is set up. The tree does
\* not change during a run, so the batches the generator will produce are
\* those of the tree as rglob lists it now.
IngestStart ==
    /\ ipc = "idle"
    /\ runs < MaxRuns
    /\ \E a \in IngestArgs, order \in Orderings(tree), f \in Range(EnsureSteps) \cup {"none"} :
          /\ iargs' = a
          /\ total' = 0
          /\ has_data' = FALSE
          /\ upserted' = {}
          /\ IF a.source_dir \notin SourceDirs
             THEN /\ ipc' = "failed"
                  /\ iout' = "SystemExit: source directory does not exist or is not a folder"
                  /\ pending' = <<>>
                  /\ base' = <<>>
                  /\ UNCHANGED <<dirs, store>>
             ELSE LET r == EnsureCollection(dirs, store, a.db_dir, a.collection, a.reset, f)
                  IN  /\ dirs' = r.dirs
                      /\ store' = r.store
                      /\ IF r.ok
                         THEN /\ ipc' = "upsert"
                              /\ iout' = ""
                              /\ pending' = Batched(DiscoverChunks(order, a), a.batch_size)
                              /\ base' = Rows(r.store, a.db_dir, a.collection)
                         ELSE /\ ipc' = "failed"
                              /\ iout' = "exception in ensure_collection"
                              /\ pending' = <<>>
                              /\ base' = <<>>
    /\ UNCHANGED <<tree, prev, runs, toolVars, pureVars>>

UpsertRaisedSwallowed(p) == [ipc |-> "upsert", pending |-> Tail(p)]

\* collection.upsert raises inside the for loop: nothing catches the exception,
\* so handle_ingest ends there with the batches not yet upserted left undone.
UpsertRaised(p) == [ipc |-> "failed", pending |-> p]

\* One iteration of the for loop: the next batch is upserted, or the upsert
\* raises and the run ends with nothing of that batch written.
IngestUpsert ==
    /\ ipc = "upsert"
    /\ pending # <<>>
    /\ \E ok \in BOOLEAN :
          IF ok
          THEN /\ store' = [store EXCEPT ![iargs.db_dir][iargs.collection].rows =
                                UpsertBatch(@, pending[1])]
               /\ total' = total + Len(pending[1])
               /\ has_data' = TRUE
               /\ upserted' = upserted \cup {pending[1][k].doc_id : k \in DOMAIN pending[1]}
               /\ pending' = Tail(pending)
               /\ UNCHANGED <<ipc, iout>>
          ELSE /\ ipc' = UpsertRaised(pending).ipc
               /\ pending' = UpsertRaised(pending).pending
               /\ iout' = "exception in upsert"
               /\ UNCHANGED <<store, total, has_data, upserted>>
    /\ UNCHANGED <<dirs, tree, iargs, base, prev, runs, toolVars, pureVars>>

\* The generator is exhausted: the summary is printed.
IngestFinish ==
    /\ ipc = "upsert"
    /\ pending = <<>>
    /\ ipc' = "done"
    /\ iout' = (IF ~has_data THEN "No chunks were produced; check your filters."
                ELSE "Ingested " \o IntToStr(total) \o " chunks from " \o iargs.source_dir \o ".")
    /\ UNCHANGED <<diskVars, iargs, pending, total, has_data, upserted, base, prev, runs,
                   toolVars, pureVars>>

IngestLocalsReset ==
    /\ iargs' = NoArgs
    /\ pending' = <<>>
    /\ total' = 0
    /\ has_data' = FALSE
    /\ iout' = ""
    /\ upserted' = {}
    /\ base' = <<>>

\* The process ends.
IngestExit ==
    /\ ipc \in {"done", "failed"}
    /\ ipc' = "idle"
    /\ IngestLocalsReset
    /\ UNCHANGED <<diskVars, prev, runs, toolVars, pureVars>>

\* The process ends, observed: what the run did is remembered for the next
\* run, and the runs are counted.
IngestExitObserved ==
    /\ ipc \in {"done", "failed"}
    /\ ipc' = "idle"
    /\ IngestLocalsReset
    /\ runs' = runs + 1
    /\ prev' = [ok |-> ipc = "done",
                failed_upsert |-> ipc = "failed" /\ iout = "exception in upsert",
                args |-> iargs, tree |-> tree, ids |-> upserted, base |-> base,
                rows |-> IF ipc = "done"
                         THEN Rows(store, iargs.db_dir, iargs.collection) ELSE <<>>]
    /\ UNCHANGED <<diskVars, toolVars, pureVars>>

IngestNext == EditTree \/ IngestStart \/ IngestUpsert \/ IngestFinish \/ IngestExit

\* Consecutive ingest runs, observed, with nothing else running.
RerunNext ==
    EditTree \/ IngestStart \/ IngestUpsert \/ IngestFinish \/ IngestExitObserved

\* ------------------------------------------------------------------------
\* The MCP tools: list_collections, query_codebase, list_rows
\* ------------------------------------------------------------------------
Callers == {"c1"}
ToolCollections == {DEFAULT_COLLECTION}

ToolDefaults ==
    [db_dir : DbDirs, collection : {DEFAULT_COLLECTION}, top_k : {5}, limit : {10},
     offset : {0}, include_documents : {FALSE}]

ListCollectionsArgs ==
    {[op |-> "list_collections"] @@ d : d \in ToolDefaults}

QueryArgs ==
    {[op |-> "query_codebase"] @@ [d EXCEPT !.collection = n, !.top_k = k] :
        d \in ToolDefaults, n \in ToolCollections, k \in {0, 2}}

ListRowsArgs ==
    {[op |-> "list_rows"] @@
        [d EXCEPT !.collection = n, !.limit = l, !.offset = o, !.include_documents = i] :
        d \in ToolDefaults, n \in ToolCollections, l \in {0, 2}, o \in {0 - 1, 1},
        i \in BOOLEAN}

NoCall ==
    [op |-> "none", db_dir |-> DEFAULT_DB_DIR, collection |-> DEFAULT_COLLECTION,
     top_k |-> 5, limit |-> 10, offset |-> 0, include_documents |-> FALSE]

NoResult == [kind |-> "none", msg |-> "", total |-> 0, rows |-> <<>>]
Text(msg, n, rows) == [kind |-> "text", msg |-> msg, total |-> n, rows |-> rows]
Raise(msg) == [kind |-> "raise", msg |-> msg, total |-> 0, rows |-> <<>>]

\* The place of step s in a sequence of steps, and the number of steps made
\* when the call fails at step f (the failing call is made).
StepIndex(steps, s) == CHOOSE i \in DOMAIN steps : steps[i] = s
CallsMade(steps, f) == IF f = "none" THEN Len(steps) ELSE StepIndex(steps, f)

ValidateAlways(value) == TRUE

\* _validate_positive: raises when value <= 0
ValidatePositive(value) == ~(value <= 0)

\* A metadata value that is None in Python.
NONE == "\\None"

\* {key: str(value) for key, value in (metadata or {}).items() if value is not None}
CleanMetadata(m) == [k \in {x \in DOMAIN m : m[x] # NONE} |-> m[k]]

ToolIdle ==
    /\ tpc = [c \in Callers |-> "idle"]
    /\ targs = [c \in Callers |-> NoCall]
    /\ ttotal = [c \in Callers |-> 0]
    /\ tresult = [c \in Callers |-> NoResult]
    /\ tio = [c \in Callers |-> 0]

\* The call of caller c ends with result r after n file-system and store calls.
Finish(c, a, r, n) ==
    /\ tpc' = [tpc EXCEPT ![c] = "done"]
    /\ targs' = [targs EXCEPT ![c] = a]
    /\ tresult' = [tresult EXCEPT ![c] = r]
    /\ tio' = [tio EXCEPT ![c] = n]

\* ", ".join(f"{key}={value}" ...) of a collection's metadata
CollectionMetadataText(meta) ==
    IF meta = IngestMetadata THEN " [platform=chromadb, kind=code-rag]" ELSE ""

ListSteps == <<"exists", "client", "list_collections">>

\* list_collections: _list_collections_sync runs outside any try block; only
\* collection.count() is guarded (a failing count is reported as 0).
ListCollections(c) ==
    /\ tpc[c] = "idle"
    /\ \E a \in ListCollectionsArgs, f \in {"none", "client", "list_collections"} :
       \E order \in Orderings(DOMAIN store[a.db_dir]),
          countFails \in SUBSET DOMAIN store[a.db_dir] :
          LET cs == store[a.db_dir]
              line(n) == "- " \o n \o " ("
                            \o IntToStr(IF n \in countFails THEN 0 ELSE Len(cs[n].rows))
                            \o " rows)" \o CollectionMetadataText(cs[n].metadata)
              listing == [i \in DOMAIN order |-> line(order[i])]
          IN  IF a.db_dir \notin dirs
              THEN Finish(c, a, Text("No collections found. Ingest code first.", 0, <<>>), 1)
              ELSE IF f # "none"
              THEN Finish(c, a, Raise("exception in " \o f), CallsMade(ListSteps, f))
              ELSE IF listing = <<>>
              THEN Finish(c, a, Text("No collections found. Ingest code first.", 0, <<>>),
                          CallsMade(ListSteps, f))
              ELSE Finish(c, a, Text("Collections:", Len(listing), listing),
                          CallsMade(ListSteps, f) + Len(listing))
    /\ UNCHANGED <<ttotal, diskVars, ingestVars, pureVars>>

QuerySteps == <<"mkdir", "client", "create", "query">>

\* _get_collection(db_dir, collection_name), failing at step f (or at none):
\* path.mkdir(parents=True, exist_ok=True), PersistentClient,
\* get_or_create_collection.
GetCollection(ds, st, db_dir, name, f) ==
    [dirs |-> IF Before(QuerySteps, f, "mkdir") THEN ds \cup {db_dir} ELSE ds,
     store |-> IF Before(QuerySteps, f, "create")
               THEN [st EXCEPT ![db_dir] = GetOrCreateCollection(@, name, NoMetadata)]
               ELSE st]

\* The orders in which the store may return up to k nearest rows.
HitLists(rows, k) ==
    LET n == Min(k, Len(rows))
    IN  {h \in [1..n -> DOMAIN rows] : \A i, j \in 1..n : i # j => h[i] # h[j]}

\* A value that is None in Python, and one that is not.
Absent == <<>>
Present(v) == <<v>>

\* Metadata values as the store may hold them: a string, an integer or None.
MetaStr(str) == [t |-> "str", s |-> str, n |-> 0]
MetaInt(int) == [t |-> "int", s |-> "", n |-> int]
MetaNone == [t |-> "none", s |-> "", n |-> 0]

\* str(value)
Str(value) == IF value.t = "int" THEN IntToStr(value.n) ELSE value.s

\* One entry of the dictionary collection.query returns: the key is missing,
\* its value is None, its value is [None], or its value is [items].
Missing == [form |-> "missing", items |-> <<>>]
NoneValue == [form |-> "none", items |-> <<>>]
InnerNone == [form |-> "inner_none", items |-> <<>>]
ListOf(items) == [form |-> "list", items |-> items]

\* results.get(key, [[]])[0] or []: None[0] raises TypeError.
ResultFieldRaises(f) == f.form = "none"
ResultField(f) == IF f.form = "list" THEN f.items ELSE <<>>

\* zip(metadatas, documents, distances): as long as the shortest of the three
Zip3(ms, ds, xs) ==
    [i \in 1..Min(Len(ms), Min(Len(ds), Len(xs))) |-> <<ms[i], ds[i], xs[i]>>]

\* {key: str(value) for key, value in (metadata or {}).items() if value is not None}
\* of _query_collection_sync
CleanQueryMetadata(mo) ==
    LET m == IF mo = Absent THEN NoMetadata ELSE mo[1]
    IN  [k \in {x \in DOMAIN m : m[x].t # "none"} |-> Str(m[k])]

\* The (metadata, document, distance) triples _query_collection_sync builds
\* from what collection.query returned.
Contexts(res) ==
    LET z == Zip3(ResultField(res.metadatas), ResultField(res.documents),
                  ResultField(res.distances))
    IN  [i \in DOMAIN z |->
            <<CleanQueryMetadata(z[i][1]),
              IF z[i][2] = Absent THEN <<>> ELSE z[i][2][1],
              IF z[i][3] = Absent THEN 0 ELSE z[i][3][1]>>]

\* _query_collection_sync from the result of collection.query on
QueryCollectionSync(res) ==
    IF \/ ResultFieldRaises(res.metadatas)
       \/ ResultFieldRaises(res.documents)
       \/ ResultFieldRaises(res.distances)
    THEN [ok |-> FALSE, contexts |-> <<>>]
    ELSE [ok |-> TRUE, contexts |-> Contexts(res)]

\* What collection.query returns for the hits h of rows with every field
\* included; the distance of the i-th nearest hit is modelled by i.
StoreResult(rows, h) ==
    [ids |-> [i \in DOMAIN h |-> rows[h[i]].id],
     metadatas |-> ListOf([i \in DOMAIN h |->
                      Present([k \in DOMAIN rows[h[i]].metadata |->
                                  MetaStr(rows[h[i]].metadata[k])])]),
     documents |-> ListOf([i \in DOMAIN h |-> Present(rows[h[i]].document)]),
     distances |-> ListOf([i \in DOMAIN h |-> Present(i)])]

\* The results of collection.query the retriever is run on: up to MaxHits
\* hits, each with its metadata, document and distance or with None in their
\* place, and the documents and the distances also missing as a whole.
HitMetadata ==
    {Absent,
     Present([path |-> MetaStr("a.py"), start_line |-> MetaInt(3), note |-> MetaNone])}
HitDocuments == {Absent, Present(<<"x">>)}
HitDistances == {Absent, Present(1), Present(2)}
WholeAbsent == {Missing, NoneValue, InnerNone}

StoreResults ==
    UNION {[ids : {[i \in 1..n |-> "a.py::" \o IntToStr(i - 1)]},
            metadatas : {ListOf(ms) : ms \in [1..n -> HitMetadata]},
            documents : WholeAbsent \cup {ListOf(ds) : ds \in [1..n -> HitDocuments]},
            distances : WholeAbsent \cup {ListOf(xs) : xs \in [1..n -> HitDistances]}] :
              n \in 0..MaxHits}

NoStoreResult == [ids |-> <<>>, metadatas |-> Missing, documents |-> Missing,
                  distances |-> Missing]

QueryIdle ==
    /\ qres = NoStoreResult
    /\ qout = [ok |-> TRUE, contexts |-> <<>>]
    /\ qpc = "idle"

QueryInit ==
    /\ qres \in StoreResults
    /\ qout = [ok |-> TRUE, contexts |-> <<>>]
    /\ qpc = "call"

\* _query_collection_sync runs on the result.
QueryCollectionSyncRun ==
    /\ qpc = "call"
    /\ qout' = QueryCollectionSync(qres)
    /\ qpc' = "done"
    /\ UNCHANGED <<qres, exceptQuery>>

QueryNext == QueryCollectionSyncRun

\* query_codebase: validation, then _query_collection_sync inside the try
\* block, then the formatted answer.
QueryCodebase(c) ==
    /\ tpc[c] = "idle"
    /\ \E a \in QueryArgs, f \in Range(QuerySteps) \cup {"none"} :
          IF ~ValidatePositive(a.top_k)
          THEN /\ Finish(c, a, Raise("ValueError: top_k must be greater than zero."), 0)
               /\ UNCHANGED <<dirs, store>>
          ELSE LET g == GetCollection(dirs, store, a.db_dir, a.collection, f)
               IN  /\ dirs' = g.dirs
                   /\ store' = g.store
                   /\ IF f # "none"
                      THEN Finish(c, a, Text("Query failed: exception in " \o f, 0, <<>>),
                                  CallsMade(QuerySteps, f))
                      ELSE \E h \in HitLists(Rows(g.store, a.db_dir, a.collection), a.top_k) :
                              LET ctx == Contexts(StoreResult(
                                             Rows(g.store, a.db_dir, a.collection), h))
                              IN  IF ctx = <<>>
                                  THEN Finish(c, a,
                                          Text("No matches found. Make sure the collection has been ingested.",
                                               0, <<>>), Len(QuerySteps))
                                  ELSE Finish(c, a, Text("Collection", Len(ctx), ctx),
                                              Len(QuerySteps))
    /\ UNCHANGED <<ttotal, tree, ingestVars, pureVars>>

RowsSteps == <<"client", "get_collection", "count", "get">>

\* list_rows up to collection.count(): validation, PersistentClient,
\* get_collection (a missing collection raises InvalidCollectionException),
\* count.
ListRowsCount(c) ==
    /\ tpc[c] = "idle"
    /\ \E a \in ListRowsArgs, f \in {"none", "client", "get_collection", "count"} :
          IF ~ValidatePositive(a.limit)
          THEN /\ Finish(c, a, Raise("ValueError: limit must be greater than zero."), 0)
               /\ UNCHANGED ttotal
          ELSE IF a.offset < 0
          THEN /\ Finish(c, a, Raise("ValueError: offset must be zero or greater."), 0)
               /\ UNCHANGED ttotal
          ELSE IF f = "client"
          THEN /\ Finish(c, a, Text("Failed to fetch rows: exception in client", 0, <<>>), 1)
               /\ UNCHANGED ttotal
          ELSE IF a.collection \notin DOMAIN store[a.db_dir]
          THEN /\ Finish(c, a, Text("Collection was not found. Run the ingestion script first.",
                                    0, <<>>), 2)
               /\ UNCHANGED ttotal
          ELSE IF f # "none"
          THEN /\ Finish(c, a, Text("Failed to fetch rows: exception in " \o f, 0, <<>>),
                         CallsMade(RowsSteps, f))
               /\ UNCHANGED ttotal
          ELSE /\ tpc' = [tpc EXCEPT ![c] = "get"]
               /\ targs' = [targs EXCEPT ![c] = a]
               /\ ttotal' = [ttotal EXCEPT ![c] = Len(Rows(store, a.db_dir, a.collection))]
               /\ tio' = [tio EXCEPT ![c] = 3]
               /\ UNCHANGED tresult
    /\ UNCHANGED <<diskVars, ingestVars, pureVars>>

\* snippet = document.strip(); if len(snippet) > 700: snippet = snippet[:700] + "..."
Snippet(document) ==
    LET sn == Strip(document)
    IN  IF Len(sn) > SnippetMax THEN SubSeq(sn, 1, SnippetMax) \o <<".", ".", ".">> ELSE sn

\* collection.get(limit=limit, offset=offset)
GetWindow(rows, limit, offset) == SubSeq(rows, offset + 1, Min(offset + limit, Len(rows)))

\* The rows of _list_rows_sync as _format_rows_output labels and prints them.
FormatRows(window, offset, include_docs) ==
    [i \in DOMAIN window |->
        [label |-> offset + i,
         id |-> window[i].id,
         metadata |-> CleanMetadata(window[i].metadata),
         snippet |-> IF include_docs THEN Snippet(window[i].document) ELSE <<>>]]

\* list_rows from collection.get() on: the window is fetched, or get raises
\* (as it does when the collection is gone), and the output is formatted
\* with the count read before.
ListRowsGet(c) ==
    /\ tpc[c] = "get"
    /\ LET a == targs[c]
       IN  \E ok \in BOOLEAN :
              IF ~ok \/ a.collection \notin DOMAIN store[a.db_dir]
              THEN Finish(c, a, Text("Failed to fetch rows: exception in get", 0, <<>>), 4)
              ELSE LET window == GetWindow(Rows(store, a.db_dir, a.collection),
                                           a.limit, a.offset)
                   IN  IF window = <<>>
                       THEN Finish(c, a, Text("No rows found for the requested window.",
                                              ttotal[c], <<>>), 4)
                       ELSE Finish(c, a,
                                   Text("Rows", ttotal[c],
                                        FormatRows(window, a.offset, a.include_documents)), 4)
    /\ UNCHANGED <<ttotal, diskVars, ingestVars, pureVars>>

\* The caller takes the result.
ToolReturn(c) ==
    /\ tpc[c] = "done"
    /\ tpc' = [tpc EXCEPT ![c] = "idle"]
    /\ targs' = [targs EXCEPT ![c] = NoCall]
    /\ ttotal' = [ttotal EXCEPT ![c] = 0]
    /\ tresult' = [tresult EXCEPT ![c] = NoResult]
    /\ tio' = [tio EXCEPT ![c] = 0]
    /\ UNCHANGED <<diskVars, ingestVars, pureVars>>

ToolNext ==
    \E c \in Callers :
        \/ ListCollections(c)
        \/ QueryCodebase(c)
        \/ ListRowsCount(c)
        \/ ListRowsGet(c)
        \/ ToolReturn(c)

SysIdle == DiskInit /\ IngestIdle /\ ToolIdle

Init == SysIdle /\ ChunkIdle /\ BatchIdle /\ DiscIdle /\ QueryIdle

Next == IngestNext \/ ToolNext

\* ------------------------------------------------------------------------
\* Specifications
\* ------------------------------------------------------------------------
InitChunk == ChunkInit /\ BatchIdle /\ DiscIdle /\ QueryIdle /\ SysIdle

InitBatch == BatchInit /\ ChunkIdle /\ DiscIdle /\ QueryIdle /\ SysIdle

InitDiscover == DiscInit /\ ChunkIdle /\ BatchIdle /\ QueryIdle /\ SysIdle

InitQuery == QueryInit /\ ChunkIdle /\ BatchIdle /\ DiscIdle /\ SysIdle

Spec == Init /\ [][Next]_vars

SpecRerun == Init /\ [][RerunNext]_vars

SpecChunk == InitChunk /\ [][ChunkNext]_vars

FairSpecChunk == SpecChunk /\ WF_vars(ChunkNext)

SpecBatch == InitBatch /\ [][BatchNext]_vars

SpecDiscover == InitDiscover /\ [][DiscNext]_vars

SpecQuery == InitQuery /\ [][QueryNext]_vars

\* ------------------------------------------------------------------------
\* Properties of chunk_text
\* ------------------------------------------------------------------------
\* The number of lines of a text, counted from its line breaks.
LineCount(t) ==
    Cardinality({i \in 1..Len(t) : t[i] = NL})
        + (IF t # <<>> /\ t[Len(t)] # NL THEN 1 ELSE 0)

CeilDiv(a, b) == (a + b - 1) \div b

\* The windows the rule of the data model prescribes for L lines.
ExpectedWindows(L, c, o) ==
    LET stp == IF c - o >= 1 THEN c - o ELSE 1
        n == Cardinality({s \in 0..(L - 1) : s % stp = 0})
    IN  [k \in 1..n |->
            <<(k - 1) * stp, IF (k - 1) * stp + c < L THEN (k - 1) * stp + c ELSE L>>]

\* A window all of whose characters are whitespace strips to empty.
BlankWindow(ls, w) ==
    \A i \in (w[1] + 1)..w[2] : \A j \in 1..Len(ls[i]) : ls[i][j] \in Whitespace

NonBlank(w) == ~BlankWindow(lines, w)

IsPrefix(s, t) == Len(s) <= Len(t) /\ s = SubSeq(t, 1, Len(s))

\* C3: chunk_text considers exactly the windows starting at 0, step, 2*step, ...
\* below L with step = max(1, chunk_lines - chunk_overlap), each covering
\* [start, min(L, start + chunk_lines)); it yields, in order, the windows whose
\* text does not strip to empty, as (stripped text, start + 1, end), and skips
\* the others while still advancing by step.
ChunkWindowsRule ==
    LET L == LineCount(text)
        expected == ExpectedWindows(L, chunk_lines, chunk_overlap)
        kept == SelectSeq(windows, NonBlank)
    IN  /\ cpc # "entry" => Len(lines) = L
        /\ IsPrefix(windows, expected)
        /\ cpc = "loop" => start = Len(windows) * step
        /\ cpc = "done" => windows = expected
        /\ Len(yielded) = Len(kept)
        /\ \A k \in 1..Len(kept) :
              /\ yielded[k][2] = kept[k][1] + 1
              /\ yielded[k][3] = kept[k][2]
              /\ yielded[k][1] = Strip(JoinLines(SubSeq(lines, kept[k][1] + 1, kept[k][2])))
              /\ yielded[k][1] # <<>>

\* A finished run over several lines in which a blank window was skipped
\* between two yielded ones.
ChunkWindowsWitness ==
    /\ cpc = "done"
    /\ Len(windows) >= 3
    /\ Len(yielded) = 2
    /\ BlankWindow(lines, windows[2])
    /\ chunk_overlap >= 1

ValidOverlap == 0 <= chunk_overlap /\ chunk_overlap < chunk_lines

ChunkCountRule ==
    LET L == LineCount(text)
        n == CeilDiv(L, Max(1, chunk_lines - chunk_overlap))
        blank == {k \in 1..Len(windows) : BlankWindow(lines, windows[k])}
    IN  Len(yielded) = n - Cardinality(blank)

\* C4 as stated: for 0 <= o < c the number of chunks is ceil(L / max(1, c-o))
\* minus the windows that strip to empty, and the last yielded chunk ends at L.
ChunkCountAndLastEnd ==
    (cpc = "done" /\ ValidOverlap) =>
        /\ ChunkCountRule
        /\ yielded # <<>> => yielded[Len(yielded)][3] = LineCount(text)

\* C4 amended: the count is as stated; the last window considered ends at L,
\* and the last yielded chunk ends at L whenever that last window does not
\* strip to empty.
ChunkCountAndLastWindowEnd ==
    (cpc = "done" /\ ValidOverlap) =>
        /\ ChunkCountRule
        /\ windows # <<>> =>
              /\ windows[Len(windows)][2] = LineCount(text)
              /\ ~BlankWindow(lines, windows[Len(windows)]) =>
                    yielded[Len(yielded)][3] = LineCount(text)

\* A finished run with a valid overlap whose last window is blank while an
\* earlier one was yielded.
ChunkCountWitness ==
    /\ cpc = "done"
    /\ ValidOverlap
    /\ chunk_overlap >= 1
    /\ Len(windows) >= 2
    /\ yielded # <<>>
    /\ BlankWindow(lines, windows[Len(windows)])

\* C9: chunk_text terminates for every chunk_lines >= 1 and every integer
\* chunk_overlap: each iteration moves start up by at least 1, the loop runs
\* at most L times for L lines, and the generator is eventually exhausted.
ChunkTextTerminates ==
    /\ [](Len(windows) <= Len(lines) /\ (cpc = "loop" => start >= Len(windows)))
    /\ [][ChunkTextIter => start' >= start + 1]_vars
    /\ <>(cpc = "done")

\* A finished run with chunk_overlap >= chunk_lines that took one iteration
\* per line.
ChunkTerminatesWitness ==
    /\ cpc = "done"
    /\ chunk_overlap >= chunk_lines
    /\ Len(lines) >= 3
    /\ Len(windows) = Len(lines)

\* ------------------------------------------------------------------------
\* Properties of batched
\* ------------------------------------------------------------------------
RECURSIVE Flatten(_)
Flatten(ss) == IF ss = <<>> THEN <<>> ELSE ss[1] \o Flatten(Tail(ss))

\* C8: the lists batched yields, concatenated, are the input in order; every
\* list but possibly the last has exactly size items, the last has between 1
\* and size, and no empty list is yielded (an empty input yields none).
BatchedPartitionsInput ==
    /\ \A k \in 1..Len(batches) : batches[k] # <<>>
    /\ bpc = "loop" =>
          /\ Flatten(batches) \o batch = SubSeq(iterable, 1, pos)
          /\ Len(batch) < size
          /\ \A k \in 1..Len(batches) : Len(batches[k]) = size
    /\ bpc = "done" =>
          /\ Flatten(batches) = iterable
          /\ \A k \in 1..(Len(batches) - 1) : Len(batches[k]) = size
          /\ batches # <<>> =>
                (1 <= Len(batches[Len(batches)]) /\ Len(batches[Len(batches)]) <= size)
          /\ iterable = <<>> => batches = <<>>

\* A finished run that yielded full lists and then a shorter last one.
BatchedWitness ==
    /\ bpc = "done"
    /\ size >= 2
    /\ Len(batches) >= 2
    /\ Len(batches[Len(batches)]) < size

\* ------------------------------------------------------------------------
\* Properties of discover_chunks
\* ------------------------------------------------------------------------
\* n lines "x" joined by line breaks
LinesOfX(n) == [i \in 1..(2 * n - 1) |-> IF i % 2 = 1 THEN "x" ELSE NL]

IsChunkOfF(ch) == ch.metadata.path = "f"

ScenarioChunk(id, n, first, last) ==
    [doc_id |-> id, document |-> LinesOfX(n),
     metadata |-> [path |-> "f", start_line |-> first, end_line |-> last,
                   source_dir |-> dargs.source_dir, collection |-> dargs.collection]]

FIngested ==
    /\ dpc = "done"
    /\ \E i \in DOMAIN entries : entries[i] = EntryF
    /\ dargs.extensions = <<>>
    /\ dargs.chunk_lines = 40
    /\ dargs.chunk_overlap = 10

\* C2 as stated: a 100-line file f without blank lines, ingested with
\* chunk_lines=40 and chunk_overlap=10, yields exactly the chunks f::0, f::1,
\* f::2 with the line ranges 1-40, 31-70 and 61-100, and no other chunk.
HundredLineScenario ==
    FIngested =>
        SelectSeq(chunks, IsChunkOfF) =
            <<ScenarioChunk("f::0", 40, "1", "40"),
              ScenarioChunk("f::1", 40, "31", "70"),
              ScenarioChunk("f::2", 40, "61", "100")>>

\* C2 amended: the scenario yields exactly four chunks, f::0 .. f::3, with the
\* line ranges 1-40, 31-70, 61-100 and 91-100: the window starting at line 91
\* is below the end of the file and is yielded as well.
HundredLineScenarioFourChunks ==
    FIngested =>
        SelectSeq(chunks, IsChunkOfF) =
            <<ScenarioChunk("f::0", 40, "1", "40"),
              ScenarioChunk("f::1", 40, "31", "70"),
              ScenarioChunk("f::2", 40, "61", "100"),
              ScenarioChunk("f::3", 10, "91", "100")>>

\* The scenario has run beside another file that yielded chunks.
HundredLineWitness ==
    /\ FIngested
    /\ Len(chunks) > 4
    /\ \E k \in DOMAIN chunks : chunks[k].doc_id = "f::3"

\* ------------------------------------------------------------------------
\* Properties of handle_ingest and ensure_collection
\* ------------------------------------------------------------------------
\* Two command lines that differ at most in --reset and --batch-size.
SameIngest(a, b) ==
    /\ a.source_dir = b.source_dir
    /\ a.db_dir = b.db_dir
    /\ a.collection = b.collection
    /\ a.extensions = b.extensions
    /\ a.include_hidden = b.include_hidden
    /\ a.max_file_mb = b.max_file_mb
    /\ a.chunk_lines = b.chunk_lines
    /\ a.chunk_overlap = b.chunk_overlap

\* This run has completed without reset, right after a completed run over the
\* same tree with the same chunking into the same collection.
Reran ==
    /\ ipc = "done"
    /\ prev.ok
    /\ ~iargs.reset
    /\ SameIngest(prev.args, iargs)
    /\ prev.tree = tree

\* C1: re-running ingest on an unchanged tree with the same chunking into the
\* same collection, without reset, upserts exactly the ids of the first run,
\* and leaves the collection with the row count and the id set it had after
\* the first run.
RerunIdempotent ==
    Reran =>
        LET rows == Rows(store, iargs.db_dir, iargs.collection)
        IN  /\ upserted = prev.ids
            /\ RowIds(rows) = RowIds(prev.rows)
            /\ Len(rows) = Len(prev.rows)

\* A re-run that upserted several ids in batches of another size.
RerunWitness ==
    /\ Reran
    /\ Cardinality(upserted) >= 2
    /\ iargs.batch_size # prev.args.batch_size

\* C10: when ensure_collection returns, the collection exists; with reset it
\* has no rows, whether or not it existed before; without reset the rows of an
\* existing collection are as they were.
EnsureCollectionContract ==
    [][(ipc = "idle" /\ ipc' = "upsert") =>
          LET a == iargs'
          IN  /\ a.db_dir \in dirs'
              /\ a.collection \in DOMAIN store'[a.db_dir]
              /\ a.reset => Rows(store', a.db_dir, a.collection) = <<>>
              /\ (~a.reset /\ a.collection \in DOMAIN store[a.db_dir]) =>
                    Rows(store', a.db_dir, a.collection) = Rows(store, a.db_dir, a.collection)
      ]_vars

\* ensure_collection has just returned an empty collection for a run with
\* reset, after a list_rows call still in progress had counted rows in it.
EnsureCollectionWitness ==
    /\ ipc = "upsert"
    /\ iargs.reset
    /\ upserted = {}
    /\ Rows(store, iargs.db_dir, iargs.collection) = <<>>
    /\ \E c \in Callers : tpc[c] = "get" /\ ttotal[c] >= 2

\* ------------------------------------------------------------------------
\* Properties of the tools
\* ------------------------------------------------------------------------
\* C5 as stated: no step of list_collections, query_codebase or list_rows
\* changes the directories, the collections or their rows.
ToolsAreReadOnly ==
    [][tpc' # tpc => (store' = store /\ dirs' = dirs)]_vars

InvalidArgs(a) ==
    \/ a.op = "query_codebase" /\ a.top_k <= 0
    \/ a.op = "list_rows" /\ (a.limit <= 0 \/ a.offset < 0)

\* C6 as stated: a finished call with valid arguments has returned text,
\* whatever call to the store failed.
ToolsReturnText ==
    \A c \in Callers :
        (tpc[c] = "done" /\ ~InvalidArgs(targs[c])) => tresult[c].kind = "text"

ValidationErrors ==
    {"ValueError: top_k must be greater than zero.",
     "ValueError: limit must be greater than zero.",
     "ValueError: offset must be zero or greater."}

\* C7: a call of query_codebase with top_k <= 0, or of list_rows with
\* limit <= 0 or offset < 0, ends in its first step with a ValueError, having
\* made no file-system or store call and leaving directories and collections
\* as they were.
ValidationBeforeIO ==
    [][\A c \in Callers :
          (tpc[c] = "idle" /\ tpc'[c] # "idle" /\ InvalidArgs(targs'[c])) =>
              /\ tpc'[c] = "done"
              /\ tresult'[c].kind = "raise"
              /\ tresult'[c].msg \in ValidationErrors
              /\ tio'[c] = 0
              /\ store' = store
              /\ dirs' = dirs
      ]_vars

\* list_rows was rejected for a negative offset (its limit being valid) and
\* the database directory still does not exist.
ValidationWitness ==
    \E c \in Callers :
        /\ tpc[c] = "done"
        /\ targs[c].op = "list_rows"
        /\ targs[c].limit > 0
        /\ targs[c].offset < 0
        /\ tresult[c].kind = "raise"
        /\ dirs = {}

\* ------------------------------------------------------------------------
\* Properties of a run of handle_ingest over a tree with a file that cannot
\* be read
\* ------------------------------------------------------------------------
\* The files of the tree that pass the filters of command line a and can be
\* read.
ReadableSelected(a) ==
    {e \in tree : Selected(e, a.extensions, a.include_hidden, a.max_file_mb) /\ e.read_ok}

\* The rows of the chunks of those files, file by file.
ExpectedRows(a) ==
    UNION {{RowOf(ch) : ch \in Range(FileChunks(e, a.chunk_lines, a.chunk_overlap,
                                                 a.source_dir, a.collection))} :
              e \in ReadableSelected(a)}

\* The ids of the chunks in the batches still to be upserted.
PendingIds ==
    UNION {{pending[i][k].doc_id : k \in DOMAIN pending[i]} : i \in DOMAIN pending}

\* A selected file of the tree cannot be read.
HasUnreadable ==
    \E e \in tree :
        Selected(e, iargs.extensions, iargs.include_hidden, iargs.max_file_mb) /\ ~e.read_ok

\* C11: in a run over a tree with a selected file that cannot be read, the
\* chunks upserted and still to upsert are those of the other selected files
\* and none of the unreadable file; the run is not ended by the read, and when
\* it completes every chunk of every other selected file is a row of the
\* collection and is counted in the summary.
UnreadableFileIsSkipped ==
    HasUnreadable =>
        /\ ipc \in {"upsert", "done"} =>
              upserted \cup PendingIds = {r.id : r \in ExpectedRows(iargs)}
        /\ ipc = "failed" =>
              iout \in {"SystemExit: source directory does not exist or is not a folder",
                        "exception in ensure_collection", "exception in upsert"}
        /\ ipc = "done" =>
              /\ pending = <<>>
              /\ ExpectedRows(iargs) \subseteq
                    Range(Rows(store, iargs.db_dir, iargs.collection))
              /\ total = Cardinality(ExpectedRows(iargs))
              /\ ExpectedRows(iargs) # {} =>
                    iout = "Ingested " \o IntToStr(total) \o " chunks from "
                                \o iargs.source_dir \o "."

\* A run over a tree with an unreadable file has completed, having upserted
\* the two chunks of the readable file in two batches.
UnreadableFileWitness ==
    /\ HasUnreadable
    /\ ipc = "done"
    /\ iargs.batch_size = 1
    /\ Cardinality(upserted) = 2
    /\ total = 2

\* ------------------------------------------------------------------------
\* Properties of a run of handle_ingest in which an upsert raises
\* ------------------------------------------------------------------------
\* The run has ended because collection.upsert raised.
FailedInUpsert == ipc = "failed" /\ iout = "exception in upsert"

\* The rows a run with command line a that never fails leaves in a collection
\* that had rows b when ensure_collection returned: the rows of b under other
\* ids, and a row for every chunk.
NeverFailedRows(b, a) ==
    {b[i] : i \in {j \in DOMAIN b : b[j].id \notin {r.id : r \in ExpectedRows(a)}}}
        \cup ExpectedRows(a)

\* This run has completed, right after a run of the same ingest (the same
\* tree, filters, chunking, collection and --reset) that ended because an
\* upsert raised.
RerunAfterFailure ==
    /\ ipc = "done"
    /\ prev.failed_upsert
    /\ SameIngest(prev.args, iargs)
    /\ prev.args.reset = iargs.reset
    /\ prev.tree = tree

\* C12: when the upsert of a batch raises, the run ends there with the
\* collection as the batches before left it (their rows written, no row of
\* the raising batch or of a later batch written, the other rows as they
\* were), nothing is upserted afterwards, and a re-run of the same ingest that
\* completes leaves the collection with exactly the rows a run that never
\* failed would have left.
UpsertFailureAborts ==
    /\ [](FailedInUpsert =>
            LET rows == Rows(store, iargs.db_dir, iargs.collection)
            IN  /\ pending # <<>>
                /\ upserted \cap PendingIds = {}
                /\ RowIds(rows) = RowIds(base) \cup upserted
                /\ \A i \in DOMAIN rows :
                      IF rows[i].id \in upserted
                      THEN rows[i] \in ExpectedRows(iargs)
                      ELSE rows[i] \in Range(base))
    /\ [][(ipc = "upsert" /\ iout' = "exception in upsert") =>
              (ipc' = "failed" /\ store' = store /\ pending' = pending)]_vars
    /\ [][ipc = "failed" => (store' = store /\ ipc' \in {"failed", "idle"})]_vars
    /\ [](RerunAfterFailure =>
            LET rows == Rows(store, iargs.db_dir, iargs.collection)
            IN  /\ Range(rows) = NeverFailedRows(prev.base, iargs)
                /\ Len(rows) = Cardinality(NeverFailedRows(prev.base, iargs)))

\* A re-run has completed after a run that had upserted its first batch into
\* a collection with rows of an earlier chunking and then failed; a row of the
\* earlier chunking is still there.
UpsertFailureWitness ==
    /\ RerunAfterFailure
    /\ prev.ids # {}
    /\ prev.base # <<>>
    /\ \E r \in Range(Rows(store, iargs.db_dir, iargs.collection)) :
          r \notin ExpectedRows(iargs)

\* ------------------------------------------------------------------------
\* Properties of _query_collection_sync
\* ------------------------------------------------------------------------
\* What the store returned for hit i under field f, None if it returned
\* nothing for it.
HitValue(f, i) == IF f.form = "list" /\ i <= Len(f.items) THEN f.items[i] ELSE Absent

\* The triple the retriever is to return for hit i of the result res.
ExpectedTriple(res, i) ==
    LET mo == HitValue(res.metadatas, i)
        m == IF mo = Absent THEN NoMetadata ELSE mo[1]
        d == HitValue(res.documents, i)
        x == HitValue(res.distances, i)
    IN  <<[k \in {y \in DOMAIN m : m[y].t # "none"} |->
              IF m[k].t = "int" THEN IntToStr(m[k].n) ELSE m[k].s],
          IF d = Absent THEN <<>> ELSE d[1],
          IF x = Absent THEN 0 ELSE x[1]>>

\* C13 as stated: the retriever returns one triple for every hit the store
\* returned, in the store's order, with "" for an absent document and 0.0 for
\* an absent distance, also when the documents or the distances are absent as
\* a whole, and with the metadata values that are not null as strings.
RetrieverYieldsEveryHit ==
    qpc = "done" =>
        /\ qout.ok
        /\ Len(qout.contexts) = Len(qres.ids)
        /\ \A i \in DOMAIN qout.contexts : qout.contexts[i] = ExpectedTriple(qres, i)

\* ------------------------------------------------------------------------
\* Properties of the collection over runs of handle_ingest without reset
\* ------------------------------------------------------------------------
\* This step is handle_ingest starting with --reset.
StartsWithReset == ipc = "idle" /\ ipc' # "idle" /\ iargs'.reset

\* C14: no step other than the start of a run with --reset removes a
\* collection or an id from one: through any sequence of runs without reset,
\* over any trees and chunkings and with tool calls in between, the ids of a
\* collection only grow.
CollectionIsAppendOnly ==
    [][~StartsWithReset =>
          \A d \in DOMAIN store : \A n \in DOMAIN store[d] :
              /\ n \in DOMAIN store'[d]
              /\ RowIds(store[d][n].rows) \subseteq RowIds(store'[d][n].rows)
      ]_vars

\* A run without reset has completed over a collection that holds an id of
\* an earlier chunking which this run did not produce: the id is still there.
AppendOnlyWitness ==
    /\ ipc = "done"
    /\ ~iargs.reset
    /\ upserted # {}
    /\ base # <<>>
    /\ \E r \in Range(Rows(store, iargs.db_dir, iargs.collection)) :
          r.id \notin upserted /\ r.id \notin {x.id : x \in ExpectedRows(iargs)}

\* ------------------------------------------------------------------------
\* Properties of list_rows beside a running ingest
\* ------------------------------------------------------------------------
\* The call of caller c was list_rows and has returned rows.
ListedRows(c) ==
    /\ tpc[c] = "done"
    /\ targs[c].op = "list_rows"
    /\ tresult[c].kind = "text"
    /\ tresult[c].msg = "Rows"

\* C15 as stated, for the responses that list rows: at most limit rows,
\* labelled offset+1 .. offset+len(rows), the last label not beyond the total
\* row count reported, whatever an ingest upserts between the count and the
\* get of list_rows.
ListRowsConsistent ==
    \A c \in Callers :
        ListedRows(c) =>
            LET rows == tresult[c].rows
                a == targs[c]
            IN  /\ Len(rows) <= a.limit
                /\ \A i \in DOMAIN rows : rows[i].label = a.offset + i
                /\ a.offset + Len(rows) <= tresult[c].total

====
